---- MODULE Spec2Model ----
(***************************************************************************)
(* Model of two parts of the NASL interpreter:                             *)
(*   - built_in_functions/cryptography/aes_ccm.rs: the six AES-CCM         *)
(*     built-ins, their lookup table and the generic ccm / ccm_iv_len core *)
(*   - test_utils.rs: the TestBuilder and its verification on drop         *)
(* Bytes are integers 0..255.  The block cipher behind Ccm<D, M, N> is an  *)
(* external primitive; it is replaced by a keyed permutation of 16-byte    *)
(* blocks, and the CCM mode around it (B0 / counter blocks, CBC-MAC, tag   *)
(* appended to the ciphertext) is kept.                                    *)
(***************************************************************************)
EXTENDS Integers, Sequences, FiniteSets, TLC

VARIABLES
    last,       \* the built-in call made most recently: inputs, outcome, steps
    origin,     \* the encrypt call whose output fed `last`'s data argument
    tb,         \* the TestBuilder in scope: lines, results, should_verify,
                \* context, context_key, variables
    tbState     \* the builder's phase, how its verification ended, whether
                \* run_all was ever called on it, and the test's history:
                \* which builder value this is and every verify() run so far

vars == <<last, origin, tb, tbState>>

----------------------------------------------------------------------------
(* Bounds of the model *)

MaxDataLen == 1         \* longest plaintext a script passes as data
MaxLines == 3           \* most lines added to one TestBuilder
MaxCtxLines == 2        \* the same in tests that change the context
MaxBuilders == 2        \* most TestBuilder values one test makes
MaxKeyCalls == 1        \* most with_context_key calls in one test
MaxVariables == 1       \* most set_variable calls in one test

(* Program constants *)

BlockSize == 16
TagSize == 16
MinIvLen == 7
MaxIvLen == 13
ByteMod == 256

----------------------------------------------------------------------------
(* NaslValue, Register, FunctionError *)

Absent == [type |-> "Absent", bytes |-> <<>>]
Data(b) == [type |-> "Data", bytes |-> b]
String(b) == [type |-> "String", bytes |-> b]
Number == [type |-> "Number", bytes |-> <<>>]

FunctionError(function, kind) ==
    [tag |-> "Err", function |-> function, kind |-> kind]

\* FunctionErrorKind from a (parameter, expected, actual) triple
WrongArgument(parameter, expected, actual) ==
    [kind |-> "WrongArgument", parameter |-> parameter,
     expected |-> expected, actual |-> actual]

\* FunctionErrorKind for a required named argument that is not set
MissingArgument(parameter) ==
    [kind |-> "WrongArgument", parameter |-> parameter,
     expected |-> "missing", actual |-> <<>>]

GeneralError(msg) == [kind |-> "GeneralError", msg |-> msg]

Digit(d) == <<"0", "1", "2", "3", "4", "5", "6", "7", "8", "9">>[d + 1]

RECURSIVE DecimalString(_)
\* usize::to_string
DecimalString(n) ==
    IF n < 10 THEN <<Digit(n)>>
    ELSE DecimalString(n \div 10) \o <<Digit(n % 10)>>

\* the accessor of a named byte-sequence argument
get_named_data(register, name, required, function) ==
    LET v == register[name]
    IN  CASE v.type = "Data" -> [tag |-> "Ok", some |-> TRUE, value |-> v.bytes]
          [] v.type = "String" -> [tag |-> "Ok", some |-> TRUE, value |-> v.bytes]
          [] v.type = "Absent" ->
                IF required
                THEN FunctionError(function, MissingArgument(name))
                ELSE [tag |-> "Ok", some |-> FALSE, value |-> <<>>]
          [] OTHER ->
                FunctionError(function,
                    WrongArgument(name, "a String or Data Value", <<v.type>>))

----------------------------------------------------------------------------
(* The primitive: Ccm<D, M, N> over a keyed permutation of blocks *)

KeySize(D) ==
    CASE D = "Aes128" -> 16
      [] D = "Aes192" -> 24
      [] D = "Aes256" -> 32

Mix(a, b) == (a + b) % ByteMod
Unmix(a, b) == (a - b + ByteMod) % ByteMod

\* D::encrypt_block: a permutation of the 16-byte blocks, one per key
BlockEncrypt(D, key, blk) ==
    [i \in 1 .. BlockSize |->
        (blk[(i % BlockSize) + 1] + key[((i - 1) % Len(key)) + 1]
            + KeySize(D) + i) % ByteMod]

RECURSIVE BigEndian(_, _)
\* the value v in n bytes, most significant first
BigEndian(n, v) ==
    IF n = 0 THEN <<>>
    ELSE BigEndian(n - 1, v \div ByteMod) \o <<v % ByteMod>>

\* the length-field size L for nonce size N
LenFieldSize(N) == BlockSize - 1 - N

\* B0: flags, nonce, message length (no associated data)
FormatB0(M, N, nonce, msgLen) ==
    <<8 * ((M - 2) \div 2) + (LenFieldSize(N) - 1)>>
        \o nonce \o BigEndian(LenFieldSize(N), msgLen)

\* A_i: flags, nonce, block counter
CounterBlock(N, nonce, i) ==
    <<LenFieldSize(N) - 1>> \o nonce \o BigEndian(LenFieldSize(N), i)

\* block b (from 1) of msg, zero padded
MsgBlock(msg, b) ==
    [i \in 1 .. BlockSize |->
        IF (b - 1) * BlockSize + i <= Len(msg)
        THEN msg[(b - 1) * BlockSize + i] ELSE 0]

NumBlocks(msg) == (Len(msg) + BlockSize - 1) \div BlockSize

RECURSIVE CbcMacFrom(_, _, _, _, _)
CbcMacFrom(D, key, x, msg, b) ==
    IF b > NumBlocks(msg) THEN x
    ELSE CbcMacFrom(D, key,
            BlockEncrypt(D, key,
                [i \in 1 .. BlockSize |-> Mix(x[i], MsgBlock(msg, b)[i])]),
            msg, b + 1)

\* the M-byte CBC-MAC of msg under B0
CbcMac(D, M, N, key, nonce, msg) ==
    SubSeq(CbcMacFrom(D, key,
                BlockEncrypt(D, key, FormatB0(M, N, nonce, Len(msg))), msg, 1),
           1, M)

\* keystream byte j (from 1) of the counter-mode stream, blocks A_1, A_2, ...
KeyStream(D, N, key, nonce, j) ==
    BlockEncrypt(D, key,
        CounterBlock(N, nonce, ((j - 1) \div BlockSize) + 1))[((j - 1) % BlockSize) + 1]

\* the tag as sent: the MAC masked with the first M bytes of E(A_0)
MaskTag(D, M, N, key, nonce, mac) ==
    [i \in 1 .. M |->
        Mix(mac[i], BlockEncrypt(D, key, CounterBlock(N, nonce, 0))[i])]

\* Aead::encrypt: ciphertext followed by the tag
AeadEncrypt(D, M, N, key, nonce, data) ==
    [tag |-> "Ok",
     value |->
        [j \in 1 .. Len(data) |-> Mix(data[j], KeyStream(D, N, key, nonce, j))]
        \o MaskTag(D, M, N, key, nonce, CbcMac(D, M, N, key, nonce, data))]

\* Aead::decrypt: the plaintext when the tag verifies, aead::Error otherwise
AeadDecrypt(D, M, N, key, nonce, data) ==
    IF Len(data) < M THEN [tag |-> "Err", value |-> <<>>]
    ELSE LET ct == SubSeq(data, 1, Len(data) - M)
             tg == SubSeq(data, Len(data) - M + 1, Len(data))
             pt == [j \in 1 .. Len(ct) |->
                        Unmix(ct[j], KeyStream(D, N, key, nonce, j))]
         IN  IF MaskTag(D, M, N, key, nonce, CbcMac(D, M, N, key, nonce, pt)) = tg
             THEN [tag |-> "Ok", value |-> pt]
             ELSE [tag |-> "Err", value |-> <<>>]

----------------------------------------------------------------------------
(* aes_ccm.rs *)

Event(op, a, n) == [op |-> op, a |-> a, n |-> n]

Panic(at) == [tag |-> "Panic", at |-> at]

\* ccm_iv_len whose Decrypt arm calls cipher.encrypt
ccm_iv_len_both_encrypt(D, M, N, crypt, key, nonce, data) ==
    IF Len(key) # KeySize(D)
    THEN [res |-> Panic("key.into()"),
          events |-> <<Event("ccm_iv_len", D, N)>>]
    ELSE IF Len(nonce) # N
    THEN [res |-> Panic("nonce.into()"),
          events |-> <<Event("ccm_iv_len", D, N), Event("Ccm::new", D, N)>>]
    ELSE IF crypt = "Encrypt"
    THEN [res |-> AeadEncrypt(D, M, N, key, nonce, data),
          events |-> <<Event("ccm_iv_len", D, N), Event("Ccm::new", D, N),
                       Event("encrypt", D, M)>>]
    ELSE [res |-> AeadEncrypt(D, M, N, key, nonce, data),
          events |-> <<Event("ccm_iv_len", D, N), Event("Ccm::new", D, N),
                       Event("decrypt", D, M)>>]

\* ccm_iv_len::<D, M, N>(crypt, key, nonce, data).  The two `into()` calls
\* make fixed-size array references and assert the slice has that size.
ccm_iv_len(D, M, N, crypt, key, nonce, data) ==
    IF Len(key) # KeySize(D)
    THEN [res |-> Panic("key.into()"),
          events |-> <<Event("ccm_iv_len", D, N)>>]
    ELSE IF Len(nonce) # N
    THEN [res |-> Panic("nonce.into()"),
          events |-> <<Event("ccm_iv_len", D, N), Event("Ccm::new", D, N)>>]
    ELSE IF crypt = "Encrypt"
    THEN [res |-> AeadEncrypt(D, M, N, key, nonce, data),
          events |-> <<Event("ccm_iv_len", D, N), Event("Ccm::new", D, N),
                       Event("encrypt", D, M)>>]
    ELSE [res |-> AeadDecrypt(D, M, N, key, nonce, data),
          events |-> <<Event("ccm_iv_len", D, N), Event("Ccm::new", D, N),
                       Event("decrypt", D, M)>>]

\* the outcome of a call: what it returned (or that it panicked), the steps
\* it took, and the mode and cipher family it ran with
Outcome(result, events, crypt, D) ==
    [result |-> result, events |-> events, crypt |-> crypt, D |-> D]

\* ccm_result that turns a failure of the primitive into empty data
ccm_result_swallow(res, function) ==
    CASE res.tag = "Ok" -> [tag |-> "Ok", value |-> Data(res.value)]
      [] res.tag = "Err" -> [tag |-> "Ok", value |-> Data(<<>>)]
      [] OTHER -> res

\* the `match res` at the end of ccm
ccm_result(res, function) ==
    CASE res.tag = "Ok" -> [tag |-> "Ok", value |-> Data(res.value)]
      [] res.tag = "Err" ->
            FunctionError(function, GeneralError("Authentication failed"))
      [] OTHER -> res

\* get_params with data read before key
get_params_data_first(register, function) ==
    LET k == get_named_data(register, "key", TRUE, function)
        d == get_named_data(register, "data", TRUE, function)
        n == get_named_data(register, "iv", TRUE, function)
        got(name) == Event("get_named_data", name, 0)
    IN  IF d.tag = "Err"
        THEN [tag |-> "Err", err |-> d, events |-> <<got("data")>>]
        ELSE IF k.tag = "Err"
        THEN [tag |-> "Err", err |-> k, events |-> <<got("data"), got("key")>>]
        ELSE IF n.tag = "Err"
        THEN [tag |-> "Err", err |-> n,
              events |-> <<got("data"), got("key"), got("iv")>>]
        ELSE [tag |-> "Ok", key |-> k.value, data |-> d.value,
              nonce |-> n.value,
              events |-> <<got("data"), got("key"), got("iv")>>]

\* `// Get parameters`: key, data and iv are read in this order, each `?`
\* returning the accessor's error at once
get_params(register, function) ==
    LET k == get_named_data(register, "key", TRUE, function)
        d == get_named_data(register, "data", TRUE, function)
        n == get_named_data(register, "iv", TRUE, function)
        got(name) == Event("get_named_data", name, 0)
    IN  IF k.tag = "Err"
        THEN [tag |-> "Err", err |-> k, events |-> <<got("key")>>]
        ELSE IF d.tag = "Err"
        THEN [tag |-> "Err", err |-> d, events |-> <<got("key"), got("data")>>]
        ELSE IF n.tag = "Err"
        THEN [tag |-> "Err", err |-> n,
              events |-> <<got("key"), got("data"), got("iv")>>]
        ELSE [tag |-> "Ok", key |-> k.value, data |-> d.value,
              nonce |-> n.value,
              events |-> <<got("key"), got("data"), got("iv")>>]

\* iv_len_arm without the arm for 13
iv_len_arm_no13(len) ==
    CASE len = 7 -> 7
      [] len = 8 -> 8
      [] len = 9 -> 9
      [] len = 10 -> 10
      [] len = 11 -> 11
      [] len = 12 -> 12
      [] OTHER -> 0

\* the arms of `match nonce.len()`: the nonce size N of the specialization
\* ccm_iv_len::<D, U16, UN> the arm calls, 0 for the `_` arm
iv_len_arm(len) ==
    CASE len = 7 -> 7
      [] len = 8 -> 8
      [] len = 9 -> 9
      [] len = 10 -> 10
      [] len = 11 -> 11
      [] len = 12 -> 12
      [] len = 13 -> 13
      [] OTHER -> 0

\* dispatch that builds the cipher from the key before it looks at the iv
dispatch_cipher_first(p, crypt, function, D) ==
    LET N == iv_len_arm(Len(p.nonce))
    IN  IF Len(p.key) # KeySize(D)
        THEN Outcome(Panic("key.into()"),
                     p.events \o <<Event("Ccm::new", D, N)>>, crypt, D)
        ELSE IF N = 0
        THEN Outcome(
                FunctionError(function,
                    WrongArgument("length of iv", "between 7 and 13",
                                  DecimalString(Len(p.nonce)))),
                p.events \o <<Event("Ccm::new", D, N)>>, crypt, D)
        ELSE LET r == ccm_iv_len(D, TagSize, N, crypt, p.key, p.nonce, p.data)
             IN  Outcome(ccm_result(r.res, function), p.events \o r.events,
                         crypt, D)

\* ccm from `// Switch mode dependent on iv length` on
dispatch(p, crypt, function, D) ==
    LET N == iv_len_arm(Len(p.nonce))
    IN  IF N = 0
        THEN Outcome(
                FunctionError(function,
                    WrongArgument("length of iv", "between 7 and 13",
                                  DecimalString(Len(p.nonce)))),
                p.events, crypt, D)
        ELSE LET r == ccm_iv_len(D, TagSize, N, crypt, p.key, p.nonce, p.data)
             IN  Outcome(ccm_result(r.res, function), p.events \o r.events,
                         crypt, D)

\* ccm::<D>(register, crypt, function)
ccm(register, crypt, function, D) ==
    LET p == get_params(register, function)
    IN  IF p.tag = "Err" THEN Outcome(p.err, p.events, crypt, D)
        ELSE dispatch(p, crypt, function, D)

aes128_ccm_encrypt(name, register) ==
    ccm(register, "Encrypt", "aes128_ccm_encrypt", "Aes128")

aes128_ccm_decrypt(name, register) ==
    ccm(register, "Decrypt", "aes128_ccm_decrypt", "Aes128")

aes192_ccm_encrypt(name, register) ==
    ccm(register, "Encrypt", "aes192_ccm_encrypt", "Aes192")

aes192_ccm_decrypt(name, register) ==
    ccm(register, "Decrypt", "aes192_ccm_decrypt", "Aes192")

aes256_ccm_encrypt(name, register) ==
    ccm(register, "Encrypt", "aes256_ccm_encrypt", "Aes256")

\* aes256_ccm_decrypt that attributes errors to the name it was passed
aes256_ccm_decrypt_passed_name(name, register) ==
    ccm(register, "Decrypt", name, "Aes256")

aes256_ccm_decrypt(name, register) ==
    ccm(register, "Decrypt", "aes256_ccm_decrypt", "Aes256")

None == "None"

\* lookup with aes192_ccm_decrypt bound to the encrypt entry point
lookup_swapped(key) ==
    CASE key = "aes128_ccm_encrypt" -> "fn aes128_ccm_encrypt"
      [] key = "aes128_ccm_decrypt" -> "fn aes128_ccm_decrypt"
      [] key = "aes192_ccm_encrypt" -> "fn aes192_ccm_encrypt"
      [] key = "aes192_ccm_decrypt" -> "fn aes192_ccm_encrypt"
      [] key = "aes256_ccm_encrypt" -> "fn aes256_ccm_encrypt"
      [] key = "aes256_ccm_decrypt" -> "fn aes256_ccm_decrypt"
      [] OTHER -> None

\* lookup(key): the entry point registered under key, or None
lookup(key) ==
    CASE key = "aes128_ccm_encrypt" -> "fn aes128_ccm_encrypt"
      [] key = "aes128_ccm_decrypt" -> "fn aes128_ccm_decrypt"
      [] key = "aes192_ccm_encrypt" -> "fn aes192_ccm_encrypt"
      [] key = "aes192_ccm_decrypt" -> "fn aes192_ccm_decrypt"
      [] key = "aes256_ccm_encrypt" -> "fn aes256_ccm_encrypt"
      [] key = "aes256_ccm_decrypt" -> "fn aes256_ccm_decrypt"
      [] OTHER -> None

\* a call through a NaslFunction pointer: (declared name, sink, register)
Invoke(entry, name, register) ==
    CASE entry = "fn aes128_ccm_encrypt" -> aes128_ccm_encrypt(name, register)
      [] entry = "fn aes128_ccm_decrypt" -> aes128_ccm_decrypt(name, register)
      [] entry = "fn aes192_ccm_encrypt" -> aes192_ccm_encrypt(name, register)
      [] entry = "fn aes192_ccm_decrypt" -> aes192_ccm_decrypt(name, register)
      [] entry = "fn aes256_ccm_encrypt" -> aes256_ccm_encrypt(name, register)
      [] entry = "fn aes256_ccm_decrypt" -> aes256_ccm_decrypt(name, register)

----------------------------------------------------------------------------
(* Scripts calling the built-ins *)

ExposedNames ==
    {"aes128_ccm_encrypt", "aes128_ccm_decrypt", "aes192_ccm_encrypt",
     "aes192_ccm_decrypt", "aes256_ccm_encrypt", "aes256_ccm_decrypt"}

DecryptNames ==
    {"aes128_ccm_decrypt", "aes192_ccm_decrypt", "aes256_ccm_decrypt"}

\* names a script may call that are not AES-CCM built-ins
OtherNames == {"aes128_ccm", "aes512_ccm_encrypt", "AES128_CCM_ENCRYPT"}

Names == ExposedNames \cup OtherNames

Fill(n, b) == [i \in 1 .. n |-> (b + i) % ByteMod]

KeyLens == {15, 16, 17, 24, 32}
Keys == {Fill(n, 160) : n \in KeyLens}

IvLens == {0} \cup ((MinIvLen - 1) .. (MaxIvLen + 1))
Ivs == {Fill(n, 240) : n \in IvLens}

DataBytes == {0, 255}
RECURSIVE SeqsUpTo(_, _)
SeqsUpTo(S, n) ==
    IF n = 0 THEN {<<>>}
    ELSE LET shorter == SeqsUpTo(S, n - 1)
         IN  shorter \cup {Append(s, x) : s \in shorter, x \in S}

Datas == SeqsUpTo(DataBytes, MaxDataLen)

KeyValues == {Absent, Number} \cup {Data(k) : k \in Keys}
DataValues == {Absent, String(<<65>>)} \cup {Data(d) : d \in Datas}
IvValues == {Absent} \cup {Data(n) : n \in Ivs}

Registers ==
    {[key |-> k, data |-> d, iv |-> n] :
        k \in KeyValues, d \in DataValues, n \in IvValues}

EmptyRegister == [key |-> Absent, data |-> Absent, iv |-> Absent]

\* the interpreter resolving a call of `name`: lookup, then the entry point
\* with the declared name `first` as its first parameter
Call(name, first, register) ==
    [name |-> name, first |-> first, register |-> register,
     entry |-> lookup(name),
     out |-> IF lookup(name) = None
             THEN Outcome([tag |-> "NotFound"], <<>>, None, None)
             ELSE Invoke(lookup(name), first, register)]

NoCall ==
    [name |-> "", first |-> "", register |-> EmptyRegister, entry |-> None,
     out |-> Outcome([tag |-> "NoCall"], <<>>, None, None)]

NoOrigin ==
    [name |-> "", register |-> EmptyRegister, events |-> <<>>,
     output |-> <<>>, tampered |-> FALSE]

\* byte x with bit `bit` (0 = least significant) inverted
FlipBit(x, bit) ==
    IF (x \div (2 ^ bit)) % 2 = 1 THEN x - 2 ^ bit ELSE x + 2 ^ bit

FlipAt(bytes, pos, bit) == [bytes EXCEPT ![pos] = FlipBit(bytes[pos], bit)]

IsEncryptOutput(c) ==
    c.out.result.tag = "Ok" /\ c.out.crypt = "Encrypt"

\* name(key: .., data: .., iv: ..);
CallBuiltin ==
    /\ last = NoCall
    /\ \E name \in Names, bogus \in BOOLEAN, register \in Registers :
        /\ last' = Call(name, IF bogus THEN "other_name" ELSE name, register)
        /\ origin' = NoOrigin
        /\ UNCHANGED <<tb, tbState>>

\* crypt = aesNNN_ccm_encrypt(..); aesMMM_ccm_decrypt(key: key, data: crypt, iv: iv);
DecryptOutput ==
    /\ origin = NoOrigin
    /\ IsEncryptOutput(last)
    /\ \E name \in DecryptNames :
        /\ last' = Call(name, name,
                        [last.register EXCEPT !.data = last.out.result.value])
        /\ origin' = [name |-> last.name, register |-> last.register,
                      events |-> last.out.events,
                      output |-> last.out.result.value.bytes,
                      tampered |-> FALSE]
    /\ UNCHANGED <<tb, tbState>>

\* the same with one bit of crypt inverted before it is passed on
DecryptTampered ==
    /\ origin = NoOrigin
    /\ IsEncryptOutput(last)
    /\ \E name \in DecryptNames,
          pos \in 1 .. Len(last.out.result.value.bytes), bit \in 0 .. 7 :
        /\ last' = Call(name, name,
                        [last.register EXCEPT !.data =
                            Data(FlipAt(last.out.result.value.bytes, pos, bit))])
        /\ origin' = [name |-> last.name, register |-> last.register,
                      events |-> last.out.events,
                      output |-> last.out.result.value.bytes,
                      tampered |-> TRUE]
    /\ UNCHANGED <<tb, tbState>>

\* the script ends; the next one starts with nothing called
EndScript ==
    /\ last # NoCall
    /\ last' = NoCall
    /\ origin' = NoOrigin
    /\ UNCHANGED <<tb, tbState>>

----------------------------------------------------------------------------
(* test_utils.rs *)

\* what the interpreter yields for one statement
StmtOk(v) == [tag |-> "Ok", value |-> v, kind |-> "", fkind |-> ""]
StmtFunctionCallError(fkind) ==
    [tag |-> "Err", value |-> 0, kind |-> "FunctionCallError", fkind |-> fkind]
StmtOtherError(kind) ==
    [tag |-> "Err", value |-> 0, kind |-> kind, fkind |-> ""]

\* a line of NASL code, given by the outcomes of the statements in it
LineKinds ==
    {<<>>, <<StmtOk(1)>>, <<StmtOk(2)>>,
     <<StmtFunctionCallError("WrongArgument")>>,
     <<StmtOtherError("SyntaxError")>>, <<StmtOk(1), StmtOk(1)>>}

\* TestResult
TestResultOk(v) == [t |-> "Ok", val |-> v, f |-> ""]
GenericCheck(f) == [t |-> "GenericCheck", val |-> 0, f |-> f]
TestResultNone == [t |-> "None", val |-> 0, f |-> ""]

Values == {1}
Predicates == {"is_err", "is_ok"}

\* NaslResult as the verifier sees it: Ok(value) or Err(FunctionErrorKind)
NaslOk(v) == [tag |-> "Ok", value |-> v, fkind |-> ""]
NaslErr(fkind) == [tag |-> "Err", value |-> 0, fkind |-> fkind]

\* the closures tests pass to check
ApplyCheck(f, result) ==
    CASE f = "is_err" -> result.tag = "Err"
      [] f = "is_ok" -> result.tag = "Ok"

RECURSIVE Concat(_)
Concat(ss) == IF ss = <<>> THEN <<>> ELSE Head(ss) \o Concat(Tail(ss))

\* CodeInterpreter over lines.join("\n"): one outcome per statement, in order
Interpret(lines) == Concat(lines)

\* TestBuilder::default()
Default ==
    [lines |-> <<>>, results |-> <<>>, context |-> "default",
     context_key |-> "default", variables |-> <<>>, should_verify |-> TRUE]

add_line(self, line, val) ==
    [self EXCEPT !.lines = Append(@, line), !.results = Append(@, val)]

ok(self, line, val) == add_line(self, line, TestResultOk(val))

check(self, line, f) == add_line(self, line, GenericCheck(f))

run(self, line) == add_line(self, line, TestResultNone)

\* run_all that leaves should_verify set
run_all_keeps_flag(self, arg) ==
    [self EXCEPT !.lines = Append(@, arg)]

run_all(self, arg) ==
    [self EXCEPT !.lines = Append(@, arg), !.should_verify = FALSE]

\* results(): the outcomes of all lines, or the panic of the map_err closure
results(self) ==
    LET out == Interpret(self.lines)
    IN  IF \E i \in 1 .. Len(out) :
                out[i].tag = "Err" /\ out[i].kind # "FunctionCallError"
        THEN [panic |-> TRUE, list |-> <<>>]
        ELSE [panic |-> FALSE,
              list |-> [i \in 1 .. Len(out) |->
                            IF out[i].tag = "Ok" THEN NaslOk(out[i].value)
                            ELSE NaslErr(out[i].fkind)]]

compare_result(result, reference) ==
    CASE reference.t = "Ok" -> result = NaslOk(reference.val)
      [] reference.t = "GenericCheck" -> ApplyCheck(reference.f, result)
      [] reference.t = "None" -> TRUE

NoPanic == [panic |-> "none", line |-> 0]
PanicAt(what, line) == [panic |-> what, line |-> line]

\* check_result: the panic it raises, if any
check_result(result, reference, line_count) ==
    IF ~ compare_result(result, reference)
    THEN CASE reference.t = "Ok" -> PanicAt("Mismatch", line_count)
           [] reference.t = "GenericCheck" -> PanicAt("Check failed", line_count)
           [] reference.t = "None" -> PanicAt("unreachable", line_count)
    ELSE NoPanic

Min(a, b) == IF a <= b THEN a ELSE b

RECURSIVE verify_loop(_, _, _)
\* the for loop of verify over results.iter().zip(self.results.iter())
verify_loop(list, refs, i) ==
    IF i > Min(Len(list), Len(refs)) THEN NoPanic
    ELSE LET p == check_result(list[i], refs[i], i - 1)
         IN  IF p # NoPanic THEN p ELSE verify_loop(list, refs, i + 1)

\* verify without the assert_eq on the two lengths
verify_no_len_check(self) ==
    LET r == results(self)
    IN  IF r.panic THEN PanicAt("Unknown error", 0)
        ELSE IF self.should_verify
        THEN verify_loop(r.list, self.results, 1)
        ELSE IF \E i \in 1 .. Len(self.results) : self.results[i].t # "None"
             THEN PanicAt("Take care", 0)
             ELSE NoPanic

\* verify(): how it ends
verify(self) ==
    LET r == results(self)
    IN  IF r.panic THEN PanicAt("Unknown error", 0)
        ELSE IF self.should_verify
        THEN IF Len(r.list) # Len(self.results)
             THEN PanicAt("assert_eq", 0)
             ELSE verify_loop(r.list, self.results, 1)
        ELSE IF \E i \in 1 .. Len(self.results) : self.results[i].t # "None"
             THEN PanicAt("Take care", 0)
             ELSE NoPanic

\* context(): the Context the lines are executed in
context(self) == [factory |-> self.context, key |-> self.context_key]

\* with_context that moves self into the returned builder
with_context_moves(self, ctx) ==
    [ret |-> [self EXCEPT !.context = ctx], dropped |-> <<>>]

\* with_context(self, context): the builder returned, and the values that go
\* out of scope when it returns (self is taken by value and only cloned from)
with_context(self, ctx) ==
    [ret |-> [lines |-> self.lines,
              results |-> self.results,
              should_verify |-> self.should_verify,
              variables |-> self.variables,
              context |-> ctx,
              context_key |-> self.context_key],
     dropped |-> <<self>>]

\* with_context_key that builds a new value and lets self go out of scope
with_context_key_copies(self, key) ==
    [ret |-> [self EXCEPT !.context_key = key], dropped |-> <<self>>]

\* with_context_key(mut self, key): self is moved into the return value
with_context_key(self, key) ==
    [ret |-> [self EXCEPT !.context_key = key], dropped |-> <<>>]

set_variable(self, arg, value) ==
    [self EXCEPT !.variables = Append(@, <<arg, value>>)]

\* Drop::drop(&mut self)
drop(self) == verify(self)

\* one run of verify(): on which builder value, where in the test, with
\* which fields and context, and how it ended
Verification(id, at, self) ==
    [id |-> id, at |-> at, builder |-> self, context |-> context(self),
     end |-> drop(self)]

\* the builder a test starts with: value 1, made by default()
Building ==
    [phase |-> "building", end |-> NoPanic, ran_all |-> FALSE,
     id |-> 1, log |-> <<>>, leaked |-> FALSE, keyed |-> 0,
     born |-> [by |-> "default", arg |-> "default", builder |-> Default]]

CanAdd == tbState.phase = "building" /\ Len(tb.lines) < MaxLines

Ok ==
    /\ CanAdd
    /\ \E line \in LineKinds, val \in Values : tb' = ok(tb, line, val)
    /\ UNCHANGED <<last, origin, tbState>>

Check ==
    /\ CanAdd
    /\ \E line \in LineKinds, f \in Predicates : tb' = check(tb, line, f)
    /\ UNCHANGED <<last, origin, tbState>>

Run ==
    /\ CanAdd
    /\ \E line \in LineKinds : tb' = run(tb, line)
    /\ UNCHANGED <<last, origin, tbState>>

RunAll ==
    /\ CanAdd
    /\ \E arg \in LineKinds : tb' = run_all(tb, arg)
    /\ tbState' = [tbState EXCEPT !.ran_all = TRUE]
    /\ UNCHANGED <<last, origin>>

\* impl Drop: the builder goes out of scope and is verified
Drop ==
    /\ tbState.phase = "building"
    /\ tbState' = [tbState EXCEPT
                        !.phase = "dropped",
                        !.end = drop(tb),
                        !.log = Append(@, Verification(tbState.id, "drop", tb))]
    /\ UNCHANGED <<last, origin, tb>>

\* the next test makes a new builder
NewBuilder ==
    /\ tbState.phase = "dropped"
    /\ tb' = Default
    /\ tbState' = Building
    /\ UNCHANGED <<last, origin>>

Contexts == {"default", "ctx_a"}
ContextKeys == {"scan_1"}
CtxLineKinds == {<<StmtOk(2)>>, <<StmtOtherError("SyntaxError")>>}

CanAddCtx == tbState.phase = "building" /\ Len(tb.lines) < MaxCtxLines

\* t.ok(..), t.check(..), t.run(..) or t.run_all(..) in a test that also
\* changes the context
AddLine ==
    /\ CanAddCtx
    /\ \E line \in CtxLineKinds :
        \/ tb' = ok(tb, line, 1) /\ UNCHANGED tbState
        \/ tb' = check(tb, line, "is_ok") /\ UNCHANGED tbState
        \/ tb' = run(tb, line) /\ UNCHANGED tbState
        \/ /\ tb' = run_all(tb, line)
           /\ tbState' = [tbState EXCEPT !.ran_all = TRUE]
    /\ UNCHANGED <<last, origin>>

SetVariable ==
    /\ tbState.phase = "building"
    /\ Len(tb.variables) < MaxVariables
    /\ tb' = set_variable(tb, "port", 1)
    /\ UNCHANGED <<last, origin, tbState>>

\* let t = t.with_context_key(key);
WithContextKey ==
    /\ tbState.phase = "building"
    /\ tbState.keyed < MaxKeyCalls
    /\ \E key \in ContextKeys :
        LET r == with_context_key(tb, key)
        IN  /\ tb' = r.ret
            /\ tbState' = [tbState EXCEPT
                    !.keyed = @ + 1,
                    !.log = @ \o [i \in 1 .. Len(r.dropped) |->
                                    Verification(tbState.id, "with_context_key",
                                                 r.dropped[i])]]
    /\ UNCHANGED <<last, origin>>

\* let t = t.with_context(ctx);  The values with_context lets go out of
\* scope are dropped before the caller gets the new builder.  If one of
\* those drops panics the test unwinds: the builder being returned is then
\* either dropped by the unwinding or never dropped at all.
WithContext ==
    /\ tbState.phase = "building"
    /\ tbState.id < MaxBuilders
    /\ \E ctx \in Contexts, unwindDrops \in BOOLEAN :
        LET r == with_context(tb, ctx)
            vs == [i \in 1 .. Len(r.dropped) |->
                        Verification(tbState.id, "with_context", r.dropped[i])]
            panicked == \E i \in 1 .. Len(vs) : vs[i].end # NoPanic
            made == [by |-> "with_context", arg |-> ctx, builder |-> r.ret]
        IN  /\ tb' = r.ret
            /\ (~ panicked) => unwindDrops
            /\ tbState' =
                IF ~ panicked
                THEN [tbState EXCEPT !.id = @ + 1, !.log = @ \o vs,
                                     !.born = made]
                ELSE [tbState EXCEPT
                        !.id = @ + 1, !.born = made,
                        !.phase = "dropped",
                        !.end = vs[1].end,
                        !.leaked = ~ unwindDrops,
                        !.log = IF unwindDrops
                                THEN @ \o vs \o
                                     <<Verification(tbState.id + 1, "unwind", r.ret)>>
                                ELSE @ \o vs]
    /\ UNCHANGED <<last, origin>>

----------------------------------------------------------------------------
(* Specifications *)

Init ==
    /\ last = NoCall
    /\ origin = NoOrigin
    /\ tb = Default
    /\ tbState = Building

Next == CallBuiltin \/ DecryptOutput \/ DecryptTampered \/ EndScript

Spec == Init /\ [][Next]_vars

NextTB == Ok \/ Check \/ Run \/ RunAll \/ Drop \/ NewBuilder

SpecTB == Init /\ [][NextTB]_vars

NextCtx ==
    AddLine \/ SetVariable \/ WithContextKey \/ WithContext \/ Drop \/ NewBuilder

SpecCtx == Init /\ [][NextCtx]_vars

----------------------------------------------------------------------------
(* Properties of the AES-CCM built-ins (checked under Spec) *)

BytesArg(v) == v.type \in {"Data", "String"}

AllPresent(reg) == BytesArg(reg.key) /\ BytesArg(reg.data) /\ BytesArg(reg.iv)

AnyAbsent(reg) == \E a \in {"key", "data", "iv"} : reg[a] = Absent

IvLen(c) == Len(c.register.iv.bytes)

KeyLen(c) == Len(c.register.key.bytes)

IsErr(c) == c.out.result.tag = "Err"

CipherOps == {"ccm_iv_len", "Ccm::new", "encrypt", "decrypt"}

\* the steps of the call that touch the cipher
CipherSteps(c) ==
    {i \in 1 .. Len(c.out.events) : c.out.events[i].op \in CipherOps}

\* the nonce sizes of the specializations the call entered
Specializations(c) ==
    {c.out.events[i].n :
        i \in {j \in 1 .. Len(c.out.events) : c.out.events[j].op = "ccm_iv_len"}}

DigitOf(ch) ==
    CASE ch = "0" -> 0 [] ch = "1" -> 1 [] ch = "2" -> 2 [] ch = "3" -> 3
      [] ch = "4" -> 4 [] ch = "5" -> 5 [] ch = "6" -> 6 [] ch = "7" -> 7
      [] ch = "8" -> 8 [] ch = "9" -> 9

RECURSIVE DecimalValue(_)
DecimalValue(s) ==
    IF s = <<>> THEN 0
    ELSE 10 * DecimalValue(SubSeq(s, 1, Len(s) - 1)) + DigitOf(s[Len(s)])

\* s is the decimal numeral of n, without leading zeros
IsDecimalOf(s, n) ==
    /\ Len(s) >= 1
    /\ DecimalValue(s) = n
    /\ (Len(s) > 1 => s[1] # "0")

IsIvRangeError(c) ==
    /\ IsErr(c)
    /\ c.out.result.kind.kind = "WrongArgument"
    /\ c.out.result.kind.parameter = "length of iv"
    /\ c.out.result.kind.expected = "between 7 and 13"

\* C1: with key, data and iv present, an iv whose length is outside 7..13
\* yields the WrongArgument error ("length of iv", "between 7 and 13", the
\* decimal length); a length in 7..13 never yields it and the call enters
\* the specialization for exactly that nonce size.
C1_IvRange ==
    (last.name \in ExposedNames /\ AllPresent(last.register)) =>
        IF IvLen(last) \notin 7 .. 13
        THEN /\ IsIvRangeError(last)
             /\ IsDecimalOf(last.out.result.kind.actual, IvLen(last))
             /\ (IvLen(last) = 6 => last.out.result.kind.actual = <<"6">>)
             /\ (IvLen(last) = 14 => last.out.result.kind.actual = <<"1", "4">>)
        ELSE /\ ~ IsIvRangeError(last)
             /\ Specializations(last) = {IvLen(last)}

C1_Witness ==
    /\ last.name = "aes192_ccm_decrypt"
    /\ AllPresent(last.register)
    /\ IvLen(last) = 14
    /\ IsIvRangeError(last)

\* the key length of the cipher family in the function's name
FamilyKeyLen(name) ==
    CASE name \in {"aes128_ccm_encrypt", "aes128_ccm_decrypt"} -> 16
      [] name \in {"aes192_ccm_encrypt", "aes192_ccm_decrypt"} -> 24
      [] name \in {"aes256_ccm_encrypt", "aes256_ccm_decrypt"} -> 32

\* C2: a key whose length does not match the function's cipher family, with
\* data present and an iv of 7..13 bytes, yields Err(FunctionError): no
\* panic and no Ok result.
C2_KeyMismatchIsError ==
    (/\ last.name \in ExposedNames
     /\ AllPresent(last.register)
     /\ IvLen(last) \in 7 .. 13
     /\ KeyLen(last) # FamilyKeyLen(last.name)) => IsErr(last)

FirstOf(reg, bad(_)) ==
    IF bad(reg.key) THEN "key" ELSE IF bad(reg.data) THEN "data" ELSE "iv"

IsAbsent(v) == v = Absent
NotBytes(v) == ~ BytesArg(v)

IsShapeError(c) ==
    /\ IsErr(c)
    /\ c.out.result.kind.kind = "WrongArgument"
    /\ c.out.result.kind.parameter \in {"key", "data", "iv"}

\* C3 as stated: when key, data or iv is absent the call returns an
\* argument-shape error naming the first absent one in the order key, data,
\* iv, and takes no cipher step.
C3_NamesFirstMissing ==
    (last.name \in ExposedNames /\ AnyAbsent(last.register)) =>
        /\ IsShapeError(last)
        /\ last.out.result.kind.parameter = FirstOf(last.register, IsAbsent)
        /\ CipherSteps(last) = {}

\* C3 as amended: when key, data or iv is absent the call returns an
\* argument-shape error naming the first parameter, in the order key, data,
\* iv, that is absent or is no string or data value, reported as missing
\* exactly when it is absent; it takes no cipher step.
C3_NamesFirstUnusable ==
    (last.name \in ExposedNames /\ AnyAbsent(last.register)) =>
        /\ IsShapeError(last)
        /\ last.out.result.kind.parameter = FirstOf(last.register, NotBytes)
        /\ (last.out.result.kind.expected = "missing"
                <=> last.register[FirstOf(last.register, NotBytes)] = Absent)
        /\ CipherSteps(last) = {}

C3_Witness ==
    /\ last.name = "aes256_ccm_encrypt"
    /\ BytesArg(last.register.key)
    /\ last.register.data = Absent
    /\ last.register.iv = Absent
    /\ IsShapeError(last)
    /\ last.out.result.kind.parameter = "data"

FamilyOf(name) ==
    CASE name \in {"aes128_ccm_encrypt", "aes128_ccm_decrypt"} -> "Aes128"
      [] name \in {"aes192_ccm_encrypt", "aes192_ccm_decrypt"} -> "Aes192"
      [] name \in {"aes256_ccm_encrypt", "aes256_ccm_decrypt"} -> "Aes256"

ModeOf(name) ==
    IF name \in {"aes128_ccm_encrypt", "aes192_ccm_encrypt", "aes256_ccm_encrypt"}
    THEN "Encrypt" ELSE "Decrypt"

\* the events of kind op in a sequence of steps
Steps(events, op) == {events[i] : i \in {j \in 1 .. Len(events) : events[j].op = op}}

\* the cipher configuration a call resolved to: block cipher, nonce size, tag size
Config(events, cryptOp) ==
    [cipher |-> {e.a : e \in Steps(events, "Ccm::new")},
     nonce |-> {e.n : e \in Steps(events, "Ccm::new")},
     tagsize |-> {e.n : e \in Steps(events, cryptOp)}]

\* `last` decrypts, unaltered or altered, the output of an encrypt call of
\* the same family with the same key and iv
DecryptsOutput(altered) ==
    /\ origin # NoOrigin
    /\ origin.tampered = altered
    /\ FamilyOf(origin.name) = FamilyOf(last.name)

\* C4: aesNNN_ccm_decrypt(key, aesNNN_ccm_encrypt(key, data, iv), iv) returns
\* Ok(Data(data)) for every family, iv length 7..13 and data, the empty one
\* included; both calls resolve to the same block cipher, nonce size and the
\* 16-byte tag.
C4_RoundTrip ==
    DecryptsOutput(FALSE) =>
        /\ last.out.result = [tag |-> "Ok", value |-> Data(origin.register.data.bytes)]
        /\ Config(origin.events, "encrypt") = Config(last.out.events, "decrypt")
        /\ Config(last.out.events, "decrypt") =
                [cipher |-> {FamilyOf(last.name)}, nonce |-> {IvLen(last)},
                 tagsize |-> {16}]
        /\ KeyLen(last) = FamilyKeyLen(last.name)
        /\ IvLen(last) \in 7 .. 13

C4_Witness ==
    /\ DecryptsOutput(FALSE)
    /\ last.name = "aes256_ccm_decrypt"
    /\ origin.register.data.bytes = <<>>
    /\ IvLen(last) = 7
    /\ last.out.result.tag = "Ok"

IsAuthenticationFailure(c) ==
    /\ IsErr(c)
    /\ c.out.result.kind = [kind |-> "GeneralError", msg |-> "Authentication failed"]

\* C5: the output of aesNNN_ccm_encrypt with any one bit inverted makes the
\* matching decrypt return the GeneralError "Authentication failed", never
\* Ok; and a decrypt is Ok only for data that is the encryption, tag
\* included, of the plaintext it returns.
C5_TamperDetected ==
    /\ DecryptsOutput(TRUE) => IsAuthenticationFailure(last)
    /\ (last.name \in DecryptNames /\ last.out.result.tag = "Ok") =>
            /\ AllPresent(last.register)
            /\ last.register.data.bytes =
                    AeadEncrypt(FamilyOf(last.name), 16, IvLen(last),
                                last.register.key.bytes, last.register.iv.bytes,
                                last.out.result.value.bytes).value

C5_Witness ==
    /\ DecryptsOutput(TRUE)
    /\ Len(origin.register.data.bytes) = 1
    /\ last.register.data.bytes[1] # origin.output[1]
    /\ IsAuthenticationFailure(last)

\* C6: every error one of the six functions returns carries the name the
\* function is registered under, whatever name is passed as first parameter.
C6_ErrorNamesFunction ==
    (last.name \in ExposedNames /\ IsErr(last)) =>
        last.out.result.function = last.name

C6_Witness ==
    /\ last.name = "aes256_ccm_decrypt"
    /\ last.first # last.name
    /\ IsAuthenticationFailure(last)
    /\ last.out.result.function = "aes256_ccm_decrypt"

\* C9: the arguments are checked first, then the iv length, and only then
\* is a cipher built from the key: a missing argument yields the
\* argument-shape error whatever the other arguments are, an iv outside
\* 7..13 yields the range error whatever the key length and data are, and
\* every cipher step comes after the three reads and an iv length in range.
C9_ValidationOrder ==
    last.name \in ExposedNames =>
        /\ AnyAbsent(last.register) => (IsShapeError(last) /\ CipherSteps(last) = {})
        /\ (AllPresent(last.register) /\ IvLen(last) \notin 7 .. 13) =>
                (IsIvRangeError(last) /\ CipherSteps(last) = {})
        /\ CipherSteps(last) # {} =>
                /\ AllPresent(last.register)
                /\ IvLen(last) \in 7 .. 13
                /\ \A i \in CipherSteps(last) : i > 3
        /\ \A i \in 1 .. Len(last.out.events) :
                i <= 3 => last.out.events[i] =
                    [op |-> "get_named_data", a |-> <<"key", "data", "iv">>[i], n |-> 0]

C9_Witness ==
    /\ last.name = "aes128_ccm_encrypt"
    /\ AllPresent(last.register)
    /\ KeyLen(last) = 15
    /\ IvLen(last) = 6
    /\ IsIvRangeError(last)

----------------------------------------------------------------------------
(* Properties of the TestBuilder (checked under SpecTB) *)

\* what executing the builder's lines yields, statement by statement
Executed == Interpret(tb.lines)

\* the execution hits an interpreter error that is no function-call error
HitsOtherError ==
    \E i \in 1 .. Len(Executed) :
        Executed[i].tag = "Err" /\ Executed[i].kind # "FunctionCallError"

\* outcome o meets expectation ref
Meets(o, ref) ==
    CASE ref.t = "Ok" -> o.tag = "Ok" /\ o.value = ref.val
      [] ref.t = "GenericCheck" ->
            \/ ref.f = "is_err" /\ o.tag = "Err"
            \/ ref.f = "is_ok" /\ o.tag = "Ok"
      [] ref.t = "None" -> TRUE

\* the expectations (from 1) the outcome at the same place does not meet
Unmet ==
    {i \in 1 .. Min(Len(Executed), Len(tb.results)) :
        ~ Meets(Executed[i], tb.results[i])}

Least(S) == CHOOSE x \in S : \A y \in S : x <= y

Verified(ranAll) == tbState.phase = "dropped" /\ tbState.ran_all = ranAll

ChecksAdded == \E i \in 1 .. Len(tb.results) : tb.results[i].t # "None"

\* C7: a builder on which run_all was never called panics when verified
\* unless the lines yield as many outcomes as expectations were added;
\* with equal counts it panics exactly when some outcome does not meet its
\* expectation, and then at the first such line.  (An interpreter error
\* that is no function-call error makes results() itself panic.)
C7_VerifyChecksEveryLine ==
    Verified(FALSE) =>
        IF HitsOtherError THEN tbState.end.panic = "Unknown error"
        ELSE IF Len(Executed) # Len(tb.results)
        THEN tbState.end.panic = "assert_eq"
        ELSE IF Unmet = {} THEN tbState.end = NoPanic
        ELSE /\ tbState.end.line = Least(Unmet) - 1
             /\ tbState.end.panic =
                    IF tb.results[Least(Unmet)].t = "Ok"
                    THEN "Mismatch" ELSE "Check failed"

C7_Witness ==
    /\ Verified(FALSE)
    /\ ~ HitsOtherError
    /\ Len(Executed) = Len(tb.results) + 1
    /\ Unmet = {}
    /\ tbState.end.panic = "assert_eq"

\* C8 as stated: once run_all was called, verification panics if and only
\* if an ok or check expectation was added.
C8_PanicsIffChecksAdded ==
    Verified(TRUE) => (tbState.end # NoPanic <=> ChecksAdded)

\* C8 as amended: once run_all was called no per-line check is made, and
\* verification panics if and only if an ok or check expectation was added
\* or executing the lines hits an interpreter error that is no
\* function-call error; without such an error the panic is the run_all one
\* and occurs exactly when an ok or check expectation was added.
C8_PanicsIffChecksAddedOrOtherError ==
    Verified(TRUE) =>
        /\ tbState.end.panic \in {"none", "Take care", "Unknown error"}
        /\ tbState.end # NoPanic <=> (ChecksAdded \/ HitsOtherError)
        /\ ~ HitsOtherError => (tbState.end.panic = "Take care" <=> ChecksAdded)

C8_Witness ==
    /\ Verified(TRUE)
    /\ ~ HitsOtherError
    /\ Len(tb.results) = 1
    /\ tb.results[1].t = "Ok"
    /\ Len(Executed) = 2
    /\ Executed[1] = StmtOk(2)
    /\ tbState.end.panic = "Take care"

----------------------------------------------------------------------------
(* Properties of TestBuilder values across with_context (checked under SpecCtx) *)

\* the verify() runs on builder value i
RunsOn(i) == {k \in 1 .. Len(tbState.log) : tbState.log[k].id = i}

IsPrefix(a, b) == Len(a) <= Len(b) /\ SubSeq(b, 1, Len(a)) = a

\* the builder in scope has been dropped (and so has every earlier value)
CurrentDropped == tbState.phase = "dropped" /\ ~ tbState.leaked

\* C11: every TestBuilder value is verified exactly once, when it is
\* dropped.  A value consumed by with_context is verified at that call,
\* against its own context; the builder returned has the same lines,
\* expectations, variables, context key and should_verify flag and the new
\* context, and is verified once more, with the lines added since, when it
\* is dropped.  with_context_key verifies nothing.
C11_VerifiedOnceOnDrop ==
    /\ \A k \in 1 .. Len(tbState.log) : tbState.log[k].id \in 1 .. tbState.id
    /\ \A i \in 1 .. (tbState.id - 1) :
            /\ Cardinality(RunsOn(i)) = 1
            /\ tbState.log[i].id = i
            /\ tbState.log[i].at = "with_context"
    /\ Cardinality(RunsOn(tbState.id)) = IF CurrentDropped THEN 1 ELSE 0
    /\ \A k \in 1 .. Len(tbState.log) :
            /\ tbState.log[k].at # "with_context_key"
            /\ tbState.log[k].context =
                    [factory |-> tbState.log[k].builder.context,
                     key |-> tbState.log[k].builder.context_key]
    /\ tbState.id > 1 =>
            LET original == tbState.log[tbState.id - 1].builder
                returned == tbState.born.builder
            IN  /\ tbState.born.by = "with_context"
                /\ returned.lines = original.lines
                /\ returned.results = original.results
                /\ returned.variables = original.variables
                /\ returned.context_key = original.context_key
                /\ returned.should_verify = original.should_verify
                /\ returned.context = tbState.born.arg
                /\ IsPrefix(returned.lines, tb.lines)
                /\ tb.context = tbState.born.arg
    /\ CurrentDropped =>
            /\ tbState.log[tbState.id].builder = tb
            /\ tbState.log[tbState.id].at \in {"drop", "unwind"}

C11_Witness ==
    /\ tbState.phase = "dropped"
    /\ tbState.id = 2
    /\ tbState.keyed = 1
    /\ Len(tbState.log) = 2
    /\ tbState.log[1].at = "with_context"
    /\ tbState.log[1].builder.lines # <<>>
    /\ tbState.log[1].context.factory = "default"
    /\ tbState.log[2].at = "drop"
    /\ tbState.log[2].context.factory = "ctx_a"
    /\ tbState.log[2].builder.lines = tbState.log[1].builder.lines

====
